---- MODULE Spec2Model ----
(***************************************************************************)
(* Wizard navigation, dynamic child forms and currency formatting of       *)
(* static/app.js ("How Much Is Enough?").                                  *)
(*                                                                         *)
(* The state is the part of the DOM the script reads and writes, plus the  *)
(* script's own variable currentStep.  Every action is one event handler,  *)
(* run to completion (the page is single-threaded).  Init is the state     *)
(* right after the DOMContentLoaded handler has run (it ends in            *)
(* showStep(1) and the static bindings).                                   *)
(*                                                                         *)
(* Texts are sequences of one-character strings: "300,000" is              *)
(* <<"3","0","0",",","0","0","0">>.                                        *)
(***************************************************************************)
EXTENDS Integers, Sequences, FiniteSets, TLC

VARIABLES
    totalSteps,          \* steps.length: the number of .step-content panels
    currentStep,         \* let currentStep
    stepActive,          \* panel k has class "active"
    progressClass,       \* classes among {"active","completed"} of indicator k
    lineActive,          \* connector at 0-based position i has class "active"
    prevVisibility,      \* prevBtn.style.visibility
    nextDisplay,         \* nextBtn.style.display
    calcDisplay,         \* calcBtn.style.display
    numChildren,         \* parseInt(numChildrenSelect.value, 10)
    children,            \* the child cards in childrenContainer, in order
    grandchildrenDisplay,\* grandchildrenSection.style.display
    focus,               \* index of the child whose expenses field has focus
    renderCalls,         \* how often renderChildren has run: 0, odd (1), even (2)
    toggles              \* the checkbox/section pairs given to bindToggle

navVars   == <<currentStep, stepActive, progressClass, lineActive,
               prevVisibility, nextDisplay, calcDisplay>>
childVars == <<numChildren, children, grandchildrenDisplay, focus, renderCalls>>
vars      == <<totalSteps, navVars, childVars, toggles>>

(***************************************************************************)
(* Bounds of the model.  A page has between 1 and MaxSteps step panels,    *)
(* numbered 1..totalSteps by their data-step, with as many progress        *)
(* indicators and one connector line fewer.                                *)
(***************************************************************************)
MaxSteps == 5

\* A faulty variant of ChildStep: the child forms are taken to sit on the
\* last step of the wizard.
ChildStep_LastStep == totalSteps

\* The step whose entry renders the child forms (if (n === 4)).
ChildStep == 4

\* focus when no child expenses field has it.
NoFocus == -1

(***************************************************************************)
(* Step navigation: showStep(n), lines 18-52.                              *)
(***************************************************************************)
StepNums == 1 .. totalSteps

\* A faulty variant of PanelsAfterShow: the panels before n stay active.
PanelsAfterShow_NoRemove(n) == [k \in StepNums |-> k <= n]

\* Lines 20-21: every panel loses "active", the panel with data-step n gets it.
PanelsAfterShow(n) == [k \in StepNums |-> k = n]

\* A faulty variant of ProgressClassOf: the comparison is the wrong way round.
ProgressClassOf_Flipped(stepNum, n) ==
    IF stepNum = n THEN {"active"}
    ELSE IF stepNum > n THEN {"completed"} ELSE {}

\* Lines 24-29: the classes of progress indicator stepNum after showStep(n).
ProgressClassOf(stepNum, n) ==
    IF stepNum = n THEN {"active"}
    ELSE IF stepNum < n THEN {"completed"} ELSE {}

ProgressAfterShow(n) == [k \in StepNums |-> ProgressClassOf(k, n)]

\* A faulty variant of LinesAfterShow: the line after the current step is
\* lit as well.
LinesAfterShow_OffByOne(n) == [i \in 0 .. (totalSteps - 2) |-> i < n]

\* Lines 32-34: line.classList.toggle('active', i < n - 1), i 0-based.
LinesAfterShow(n) == [i \in 0 .. (totalSteps - 2) |-> i < n - 1]

\* A faulty variant of PrevVisibilityFor: the first step taken to be 0.
PrevVisibilityFor_ZeroBased(n) == IF n = 0 THEN "hidden" ELSE "visible"

\* Line 37.
PrevVisibilityFor(n) == IF n = 1 THEN "hidden" ELSE "visible"

\* A faulty variant of NextDisplayFor: the last step taken to be
\* totalSteps - 1.
NextDisplayFor_OffByOne(n) == IF n = totalSteps - 1 THEN "none" ELSE "inline-flex"

\* Lines 38-44.
NextDisplayFor(n) == IF n = totalSteps THEN "none" ELSE "inline-flex"

CalcDisplayFor(n) == IF n = totalSteps THEN "inline-flex" ELSE "none"

(***************************************************************************)
(* Dynamic child forms: childFormHTML and renderChildren, lines 96-198.    *)
(***************************************************************************)
DefaultExpenses == <<"3", "0", "0", ",", "0", "0", "0">>

\* A faulty variant of childFormHTML: the house section is created without
\* the class "visible" although the checkbox is created checked.
childFormHTML_HouseHidden(index) ==
    [ index              |-> index,
      age                |-> 5,
      private_school     |-> TRUE,
      private_university |-> TRUE,
      buy_house          |-> TRUE,
      house_visible      |-> FALSE,
      house_bedrooms     |-> 4,
      annual_expenses    |-> DefaultExpenses ]

\* Lines 96-173: the card of child `index` as the markup creates it.  The
\* ids are the strings child_<index>_<field>; a card is identified here by
\* its index, which is the only varying part of those ids.
childFormHTML(index) ==
    [ index              |-> index,
      age                |-> 5,
      private_school     |-> TRUE,
      private_university |-> TRUE,
      buy_house          |-> TRUE,
      house_visible      |-> TRUE,
      house_bedrooms     |-> 4,
      annual_expenses    |-> DefaultExpenses ]

\* A faulty variant of RenderedChildren: the loop starts at i = 1.
RenderedChildren_LoopFromOne(n) == [k \in 1 .. (n - 1) |-> childFormHTML(k)]

\* A faulty variant of RenderedChildren: the cards that exist are kept and
\* only the missing ones are created.
RenderedChildren_Incremental(n) ==
    [k \in 1 .. n |-> IF k <= Len(children) THEN children[k]
                                            ELSE childFormHTML(k - 1)]

\* Lines 177-194 with n already read from the selector: the container is
\* emptied and cards 0..n-1 are appended in order.
RenderedChildren(n) == [k \in 1 .. n |-> childFormHTML(k - 1)]

\* A faulty variant of GrandchildrenDisplayFor: the section is shown from
\* the second child on.
GrandchildrenDisplayFor_FromTwo(n) == IF n > 1 THEN "block" ELSE "none"

\* Line 197.
GrandchildrenDisplayFor(n) == IF n > 0 THEN "block" ELSE "none"

\* The record of one more run of renderChildren: the count of runs, kept
\* as 0 (none yet), 1 (an odd number) or 2 (an even number above 0), so
\* that every run changes it.
CallsAfter(calls) == IF calls = 1 THEN 2 ELSE 1

\* A faulty variant of renderChildren: the container is not emptied first.
renderChildren_NoClear(n) ==
    /\ children' = children \o RenderedChildren(n)
    /\ grandchildrenDisplay' = GrandchildrenDisplayFor(n)
    /\ focus' = NoFocus
    /\ renderCalls' = CallsAfter(renderCalls)

\* renderChildren(), lines 175-198, for a selector whose value parses to n.
\* The old cards are destroyed, and with them the focus one of them held.
renderChildren(n) ==
    /\ children' = RenderedChildren(n)
    /\ grandchildrenDisplay' = GrandchildrenDisplayFor(n)
    /\ focus' = NoFocus
    /\ renderCalls' = CallsAfter(renderCalls)

\* A faulty variant of showStep: the child forms are rendered on every
\* step.
showStep_RenderAlways(n) ==
    /\ stepActive' = PanelsAfterShow(n)
    /\ progressClass' = ProgressAfterShow(n)
    /\ lineActive' = LinesAfterShow(n)
    /\ prevVisibility' = PrevVisibilityFor(n)
    /\ nextDisplay' = NextDisplayFor(n)
    /\ calcDisplay' = CalcDisplayFor(n)
    /\ currentStep' = n
    /\ renderChildren(numChildren)
    /\ UNCHANGED <<totalSteps, numChildren, toggles>>

\* showStep(n), lines 18-52.
showStep(n) ==
    /\ stepActive' = PanelsAfterShow(n)
    /\ progressClass' = ProgressAfterShow(n)
    /\ lineActive' = LinesAfterShow(n)
    /\ prevVisibility' = PrevVisibilityFor(n)
    /\ nextDisplay' = NextDisplayFor(n)
    /\ calcDisplay' = CalcDisplayFor(n)
    /\ currentStep' = n
    /\ IF n = ChildStep
         THEN renderChildren(numChildren)
         ELSE UNCHANGED <<children, grandchildrenDisplay, focus, renderCalls>>
    /\ UNCHANGED <<totalSteps, numChildren, toggles>>

\* A faulty variant of NextClick: the guard is missing.
NextClick_NoGuard == showStep(currentStep + 1)

\* Lines 54-56: the click handler of nextBtn.
NextClick ==
    IF currentStep < totalSteps
        THEN showStep(currentStep + 1)
        ELSE UNCHANGED vars

\* Lines 57-59: the click handler of prevBtn.
PrevClick ==
    IF currentStep > 1
        THEN showStep(currentStep - 1)
        ELSE UNCHANGED vars

\* A faulty variant of SelectChange: the handler also makes the child step
\* the current one.
SelectChange_MovesStep(v) ==
    /\ v # numChildren
    /\ numChildren' = v
    /\ renderChildren(v)
    /\ currentStep' = ChildStep
    /\ UNCHANGED <<totalSteps, stepActive, progressClass, lineActive,
                   prevVisibility, nextDisplay, calcDisplay, toggles>>

\* Line 200: the change handler of the child-count selector; the browser
\* fires it only when the value changed.
SelectChange(v) ==
    /\ v # numChildren
    /\ numChildren' = v
    /\ renderChildren(v)
    /\ UNCHANGED <<totalSteps, navVars, toggles>>

(***************************************************************************)
(* Currency formatting: formatCurrency and bindCurrencyFormat, 205-218.    *)
(*                                                                         *)
(* A JavaScript Number that parseInt can return here is NaN, Infinity or   *)
(* a non-negative integer-valued double.  A finite one is kept as the      *)
(* sequence of the decimal digits (0..9) of its exact value, without       *)
(* leading zeros (zero is <<0>>), so that no width of TLC's integers       *)
(* limits it.  toLocaleString writes that exact value (its digits, as      *)
(* ECMA-402 defines them for an integer).                                  *)
(***************************************************************************)
DigitChars == {"0", "1", "2", "3", "4", "5", "6", "7", "8", "9"}

DigitVal(c) ==
    CASE c = "0" -> 0 [] c = "1" -> 1 [] c = "2" -> 2 [] c = "3" -> 3
      [] c = "4" -> 4 [] c = "5" -> 5 [] c = "6" -> 6 [] c = "7" -> 7
      [] c = "8" -> 8 [] c = "9" -> 9

DigitChar(d) == <<"0", "1", "2", "3", "4", "5", "6", "7", "8", "9">>[d + 1]

IsDigitChar(c) == c \in DigitChars

IsNotComma(c) == c # ","

\* val.replace(/[^0-9]/g, ''), line 206.
OnlyDigits(val) == SelectSeq(val, IsDigitChar)

\* input.value.replace(/,/g, ''), line 216.
StripCommas(val) == SelectSeq(val, IsNotComma)

NaN == [kind |-> "NaN", digits |-> <<>>]
Infinity == [kind |-> "Infinity", digits |-> <<>>]
Finite(d) == [kind |-> "finite", digits |-> d]

\* The one character U+221E, which toLocaleString gives for Infinity.
InfinitySign == "U+221E"

\* Digit sequences as natural numbers.
RECURSIVE DropLeadingZeros(_)
DropLeadingZeros(d) ==
    IF Len(d) > 1 /\ d[1] = 0 THEN DropLeadingZeros(Tail(d)) ELSE d

\* d \div 2, digit by digit: the carry into a digit is the parity of the
\* digit before it.
Halve(d) ==
    LET q == [i \in 1 .. Len(d) |->
                (d[i] + (IF i > 1 /\ d[i - 1] % 2 = 1 THEN 10 ELSE 0)) \div 2]
    IN  DropLeadingZeros(SubSeq(q, 1, Len(d)))

IsOdd(d) == d[Len(d)] % 2 = 1

\* 2 * d: the carry into a digit comes from the digit after it.
Double(d) ==
    LET low == [i \in 1 .. Len(d) |->
                  (2 * d[i] + (IF i < Len(d) /\ d[i + 1] >= 5 THEN 1 ELSE 0)) % 10]
    IN  IF d[1] >= 5 THEN <<1>> \o low ELSE SubSeq(low, 1, Len(d))

\* d + 1.
RECURSIVE Increment(_)
Increment(d) ==
    IF Len(d) = 0 THEN <<1>>
    ELSE IF d[Len(d)] < 9
        THEN [d EXCEPT ![Len(d)] = d[Len(d)] + 1]
        ELSE Increment(SubSeq(d, 1, Len(d) - 1)) \o <<0>>

RECURSIVE LexLess(_, _)
LexLess(a, b) ==
    IF Len(a) = 0 THEN FALSE
    ELSE IF a[1] # b[1] THEN a[1] < b[1]
    ELSE LexLess(Tail(a), Tail(b))

\* a < b for digit sequences without leading zeros.
DigitsLess(a, b) ==
    IF Len(a) # Len(b) THEN Len(a) < Len(b) ELSE LexLess(a, b)

\* A Number is a double: 53 bits of significand, and a largest finite
\* value of (2^53 - 1) * 2^971.
Two53 == <<9, 0, 0, 7, 1, 9, 9, 2, 5, 4, 7, 4, 0, 9, 9, 2>>
MaxExponent == 971

\* The significand m of d cut to 53 bits, with the exponent e and the bits
\* shifted out: guard (the last one) and sticky (any earlier one).
\* The recursion is cut in runs of Run steps to keep it shallow.
Run == 32

ShiftRight(s) ==
    [ m      |-> Halve(s.m),
      guard  |-> IsOdd(s.m),
      sticky |-> s.sticky \/ s.guard,
      e      |-> s.e + 1 ]

RECURSIVE ShiftRun(_, _)
ShiftRun(s, k) ==
    IF k = 0 \/ DigitsLess(s.m, Two53) THEN s ELSE ShiftRun(ShiftRight(s), k - 1)

RECURSIVE Significand(_)
Significand(s) ==
    IF DigitsLess(s.m, Two53) THEN s ELSE Significand(ShiftRun(s, Run))

RECURSIVE DoubleRun(_, _)
DoubleRun(m, k) ==
    IF k = 0 \/ m = <<0>> THEN m ELSE DoubleRun(Double(m), k - 1)

\* m * 2^e.
RECURSIVE TimesTwoTo(_, _)
TimesTwoTo(m, e) ==
    IF e <= Run \/ m = <<0>>
        THEN DoubleRun(m, e)
        ELSE TimesTwoTo(DoubleRun(m, Run), e - Run)

\* The double nearest to the integer d (ties to even), or Infinity.
ToNumber(d) ==
    LET s  == Significand([m |-> d, guard |-> FALSE, sticky |-> FALSE, e |-> 0])
        up == s.guard /\ (s.sticky \/ IsOdd(s.m))
        m  == IF up THEN Increment(s.m) ELSE s.m
    IN  IF s.e > MaxExponent \/ (s.e = MaxExponent /\ m = Two53)
            THEN Infinity
            ELSE Finite(TimesTwoTo(m, s.e))

\* parseInt(str, 10) of a string of decimal digits only, line 206: NaN for
\* the empty string, else the Number nearest to the integer it writes.
parseInt(str) ==
    IF Len(str) = 0 THEN NaN
    ELSE LET d == [i \in 1 .. Len(str) |-> DigitVal(str[i])]
         IN  ToNumber(DropLeadingZeros(SubSeq(d, 1, Len(str))))

\* isNaN(num), line 207.
isNaN(num) == num.kind = "NaN"

\* The digits of a finite Number with a comma before every group of three
\* counted from the right.
Grouped(d) ==
    LET n   == Len(d)
        len == n + ((n - 1) \div 3)
        \* p counts the characters from the right, from 0: every fourth
        \* one is a comma.
        out == [j \in 1 .. len |->
                  LET p == len - j
                  IN  IF p % 4 = 3 THEN ","
                      ELSE DigitChar(d[n - (p - (p \div 4))])]
    IN  SubSeq(out, 1, len)

\* num.toLocaleString('en-US'), line 208, for the Numbers parseInt returns.
toLocaleString(num) ==
    IF num.kind = "NaN" THEN <<"N", "a", "N">>
    ELSE IF num.kind = "Infinity" THEN <<InfinitySign>>
    ELSE Grouped(num.digits)

\* formatCurrency(val), lines 205-209.
formatCurrency(val) ==
    LET num == parseInt(OnlyDigits(val))
    IN  IF isNaN(num) THEN <<>> ELSE toLocaleString(num)

(***************************************************************************)
(* The user's edits of a child card and the handlers bound to it,          *)
(* lines 182-193 and 211-218.  Child i (0-based, as in the ids) is         *)
(* children[i + 1].                                                        *)
(***************************************************************************)
ChildIndexes == 0 .. (Len(children) - 1)

\* What the user gives the fields of a card in this model.
AgeInputs == {5, 6}
BedroomInputs == {4, 2}
EditTexts == { <<>>, <<"1", "2", "3", "4">> }

\* The user edits the age field (no handler is bound to it).
SetAge(i, a) ==
    /\ i \in ChildIndexes
    /\ a # children[i + 1].age
    /\ children' = [children EXCEPT ![i + 1].age = a]
    /\ UNCHANGED <<totalSteps, navVars, numChildren, grandchildrenDisplay, focus,
                   renderCalls, toggles>>

\* The user picks another bedroom count (no handler is bound to it).
SetBedrooms(i, b) ==
    /\ i \in ChildIndexes
    /\ b # children[i + 1].house_bedrooms
    /\ children' = [children EXCEPT ![i + 1].house_bedrooms = b]
    /\ UNCHANGED <<totalSteps, navVars, numChildren, grandchildrenDisplay, focus,
                   renderCalls, toggles>>

\* A faulty variant of HouseVisibleAfterChange: the section is shown when
\* the checkbox is off.
HouseVisibleAfterChange_Inverted(checked) == ~checked

\* Lines 186-188: section.classList.toggle('visible', cb.checked), cb being
\* child i's buy-house checkbox in the state the user's click left it in.
HouseVisibleAfterChange(checked) == checked

\* The user clicks child i's buy-house checkbox, and its change listener
\* (lines 186-188) runs.
ChangeBuyHouse(i) ==
    /\ i \in ChildIndexes
    /\ LET checked == ~children[i + 1].buy_house
       IN  children' = [children EXCEPT
                           ![i + 1].buy_house = checked,
                           ![i + 1].house_visible = HouseVisibleAfterChange(checked)]
    /\ UNCHANGED <<totalSteps, navVars, numChildren, grandchildrenDisplay, focus,
                   renderCalls, toggles>>

\* Lines 215-217: child i's expenses field gains the focus.  A field that
\* held the focus has lost it first (the browser fires its blur before).
FocusExpenses(i) ==
    /\ i \in ChildIndexes
    /\ focus = NoFocus
    /\ focus' = i
    /\ children' = [children EXCEPT
                       ![i + 1].annual_expenses = StripCommas(@)]
    /\ UNCHANGED <<totalSteps, navVars, numChildren, grandchildrenDisplay,
                   renderCalls, toggles>>

\* The user types in the focused expenses field (no handler runs).
InputExpenses(i, t) ==
    /\ i \in ChildIndexes
    /\ focus = i
    /\ t # children[i + 1].annual_expenses
    /\ children' = [children EXCEPT ![i + 1].annual_expenses = t]
    /\ UNCHANGED <<totalSteps, navVars, numChildren, grandchildrenDisplay, focus,
                   renderCalls, toggles>>

\* Lines 212-214: child i's expenses field loses the focus.
BlurExpenses(i) ==
    /\ i \in ChildIndexes
    /\ focus = i
    /\ focus' = NoFocus
    /\ children' = [children EXCEPT
                       ![i + 1].annual_expenses = formatCurrency(@)]
    /\ UNCHANGED <<totalSteps, navVars, numChildren, grandchildrenDisplay,
                   renderCalls, toggles>>

(***************************************************************************)
(* Conditional sections: bindToggle, lines 67-80.  A pair is a checkbox    *)
(* and the section it drives, either of which the page may lack:           *)
(*   cb, section  the element exists                                       *)
(*   checked      cb.checked (FALSE when there is no checkbox)             *)
(*   visible      the section has class "visible" (FALSE when there is no  *)
(*                section)                                                 *)
(*   bound        bindToggle registered its change listener                *)
(*   changed      the checkbox has fired a change event                    *)
(*   raised       a TypeError was thrown for this pair                     *)
(***************************************************************************)
\* Lines 77-80: the checkbox ids of the four calls.
ToggleIds ==
    {"has_vacation_home", "has_sailboat", "has_yacht", "provide_for_grandchildren"}

\* The pairs the markup can hold before the script runs.
MarkupPairs ==
    {p \in [cb : BOOLEAN, section : BOOLEAN, checked : BOOLEAN,
            visible : BOOLEAN, bound : {FALSE}, changed : {FALSE},
            raised : {FALSE}] :
        (p.checked => p.cb) /\ (p.visible => p.section)}

\* A pair with no checkbox and no section.
AbsentPair ==
    [cb |-> FALSE, section |-> FALSE, checked |-> FALSE, visible |-> FALSE,
     bound |-> FALSE, changed |-> FALSE, raised |-> FALSE]

\* A complete pair as markup usually has it: unchecked, its section hidden.
HiddenPair ==
    [cb |-> TRUE, section |-> TRUE, checked |-> FALSE, visible |-> FALSE,
     bound |-> FALSE, changed |-> FALSE, raised |-> FALSE]

\* A faulty variant of bindToggle: the check for missing elements is left
\* out, so addEventListener is called on whatever getElementById returned.
bindToggle_NoGuard(pair) ==
    [pair EXCEPT !.bound = pair.cb, !.raised = ~pair.cb]

\* bindToggle(checkboxId, sectionId), lines 67-75, on the pair the two ids
\* name: it returns early when either element is missing, and registers
\* the change listener otherwise.
bindToggle(pair) ==
    IF ~pair.cb \/ ~pair.section
        THEN pair
        ELSE [pair EXCEPT !.bound = TRUE]

\* The user clicks the checkbox of a pair; if a listener is bound it runs
\* (lines 72-74): section.classList.toggle('visible', cb.checked), which
\* throws when there is no section.
ToggleChange(id) ==
    /\ toggles[id].cb
    /\ LET old     == [toggles[id] EXCEPT !.changed = TRUE]
           checked == ~old.checked
       IN  toggles' = [toggles EXCEPT ![id] =
               IF ~old.bound THEN [old EXCEPT !.checked = checked]
               ELSE IF old.section
                   THEN [old EXCEPT !.checked = checked, !.visible = checked]
                   ELSE [old EXCEPT !.checked = checked, !.raised = TRUE]]
    /\ UNCHANGED <<totalSteps, navVars, childVars>>

(***************************************************************************)
(* The page after the DOMContentLoaded handler, lines 5-222: showStep(1)   *)
(* has run (line 62), bindToggle has run on the four pairs (lines 77-80),  *)
(* no child card has been generated, and the selector and the              *)
(* grandchildren section are as the markup has them.                       *)
(***************************************************************************)
\* The values the child-count selector offers in this model.
ChildCounts == {0, 1, 2}

\* The indexes a card can have: each action on child i requires card i to
\* exist (i \in ChildIndexes).
PossibleIndexes == {c - 1 : c \in ChildCounts \ {0}}

\* The pairs of the pages of Spec: the vacation-home pair is complete,
\* unchecked and hidden, and the page has none of the other three.
\* ToggleSpec below covers every page.
SpecMarkups ==
    {[id \in ToggleIds |->
        IF id = "has_vacation_home" THEN HiddenPair ELSE AbsentPair]}

Init ==
    /\ totalSteps \in 1 .. MaxSteps
    /\ stepActive = PanelsAfterShow(1)
    /\ progressClass = ProgressAfterShow(1)
    /\ lineActive = LinesAfterShow(1)
    /\ prevVisibility = PrevVisibilityFor(1)
    /\ nextDisplay = NextDisplayFor(1)
    /\ calcDisplay = CalcDisplayFor(1)
    /\ currentStep = 1
    /\ numChildren \in ChildCounts
    /\ children = <<>>
    /\ grandchildrenDisplay \in {"block", "none"}
    /\ focus = NoFocus
    /\ renderCalls = 0
    /\ \E markup \in SpecMarkups :
          toggles = [id \in ToggleIds |-> bindToggle(markup[id])]

Next ==
    \/ NextClick
    \/ PrevClick
    \/ \E id \in ToggleIds : ToggleChange(id)
    \/ \E v \in ChildCounts : SelectChange(v)
    \/ \E i \in PossibleIndexes, a \in AgeInputs : SetAge(i, a)
    \/ \E i \in PossibleIndexes, b \in BedroomInputs : SetBedrooms(i, b)
    \/ \E i \in PossibleIndexes : ChangeBuyHouse(i)
    \/ \E i \in PossibleIndexes : FocusExpenses(i)
    \/ \E i \in PossibleIndexes, t \in EditTexts : InputExpenses(i, t)
    \/ \E i \in PossibleIndexes : BlurExpenses(i)

Spec == Init /\ [][Next]_vars

(***************************************************************************)
(* The currency handlers on one field over a wide range of texts: the      *)
(* wizard is on the child step with one card, and the user has typed a     *)
(* text into its focused expenses field.  From there the field is blurred  *)
(* and focused again and again without further typing.                     *)
(***************************************************************************)
FmtMaxLen == 3
FmtAlphabet == {"0", "1", "9", ",", "a"}

\* Every text of at most n characters of the alphabet.
TextsUpTo(n) == UNION {[1 .. k -> FmtAlphabet] : k \in 0 .. n}

\* 10^(n - 1) written out: a one and n - 1 zeros.
OneAndZeros(n) == [i \in 1 .. n |-> IF i = 1 THEN "1" ELSE "0"]

FmtSamples ==
    { <<"a", "b", "c", "d">>,
      <<"3", "0", "0", "0", "0", "0">>,
      <<"3", "0", "0", ",", "0", "0", "0">>,
      <<"1", "2", "3", "4", "5", "6", "7">>,
      <<"$", "1", ",", "0", "0", "0", ".", "5", "0">>,
      <<"-", "0", "0", "7">>,
      \* 2^53 - 1, 2^53 and 2^53 + 1
      <<"9", "0", "0", "7", "1", "9", "9", "2", "5", "4", "7", "4", "0", "9", "9", "1">>,
      <<"9", "0", "0", "7", "1", "9", "9", "2", "5", "4", "7", "4", "0", "9", "9", "2">>,
      <<"9", "0", "0", "7", "1", "9", "9", "2", "5", "4", "7", "4", "0", "9", "9", "3">>,
      \* 10^21, 10^308 and 10^309
      OneAndZeros(22), OneAndZeros(309), OneAndZeros(310) }

FmtInputs == TextsUpTo(FmtMaxLen) \cup FmtSamples

FmtInit ==
    /\ totalSteps = MaxSteps
    /\ stepActive = PanelsAfterShow(ChildStep)
    /\ progressClass = ProgressAfterShow(ChildStep)
    /\ lineActive = LinesAfterShow(ChildStep)
    /\ prevVisibility = PrevVisibilityFor(ChildStep)
    /\ nextDisplay = NextDisplayFor(ChildStep)
    /\ calcDisplay = CalcDisplayFor(ChildStep)
    /\ currentStep = ChildStep
    /\ numChildren = 1
    /\ \E t \in FmtInputs :
          children = [RenderedChildren(1) EXCEPT ![1].annual_expenses = t]
    /\ grandchildrenDisplay = GrandchildrenDisplayFor(1)
    /\ focus = 0
    /\ renderCalls = 1
    /\ toggles = [id \in ToggleIds |-> AbsentPair]

FmtNext == FocusExpenses(0) \/ BlurExpenses(0)

FmtSpec == FmtInit /\ [][FmtNext]_vars

(***************************************************************************)
(* bindToggle over every page: each of the four pairs has or lacks its     *)
(* checkbox and its section, in any state.  The wizard stays on step 1     *)
(* and the user clicks the checkboxes.                                     *)
(***************************************************************************)
ToggleInit ==
    /\ totalSteps = MaxSteps
    /\ stepActive = PanelsAfterShow(1)
    /\ progressClass = ProgressAfterShow(1)
    /\ lineActive = LinesAfterShow(1)
    /\ prevVisibility = PrevVisibilityFor(1)
    /\ nextDisplay = NextDisplayFor(1)
    /\ calcDisplay = CalcDisplayFor(1)
    /\ currentStep = 1
    /\ numChildren = 0
    /\ children = <<>>
    /\ grandchildrenDisplay = "none"
    /\ focus = NoFocus
    /\ renderCalls = 0
    /\ \E markup \in [ToggleIds -> MarkupPairs] :
          toggles = [id \in ToggleIds |-> bindToggle(markup[id])]

ToggleNext == \E id \in ToggleIds : ToggleChange(id)

ToggleSpec == ToggleInit /\ [][ToggleNext]_vars

(***************************************************************************)
(* Properties.                                                             *)
(***************************************************************************)

\* C1: in every state exactly one step panel is marked active, it is the
\* panel of currentStep, and 1 <= currentStep <= totalSteps.
C1_ExactlyOneActivePanel ==
    /\ currentStep \in 1 .. totalSteps
    /\ {k \in StepNums : stepActive[k]} = {currentStep}

\* Clicks have moved the wizard off the first step and onto the last.
C1_Witness ==
    /\ totalSteps = MaxSteps
    /\ currentStep = totalSteps
    /\ stepActive[totalSteps]
    /\ ~stepActive[1]

\* C2: a Next click moves the current step by exactly +1 below the last
\* step and changes nothing at the last step; a Previous click moves it by
\* exactly -1 above step 1 and changes nothing at step 1; no step leaves
\* [1, totalSteps].
C2_ClicksMoveByOneClamped ==
    [][ /\ NextClick =>
             IF currentStep < totalSteps
                 THEN currentStep' = currentStep + 1
                 ELSE UNCHANGED vars
        /\ PrevClick =>
             IF currentStep > 1
                 THEN currentStep' = currentStep - 1
                 ELSE UNCHANGED vars
        /\ currentStep' \in 1 .. totalSteps' ]_vars

\* The wizard has been taken to the last step, where Next does nothing
\* and Previous is the only click that moves.
C2_Witness ==
    /\ totalSteps > 2
    /\ currentStep = totalSteps
    /\ ~(ENABLED (NextClick /\ currentStep' # currentStep))
    /\ ENABLED (PrevClick /\ currentStep' = currentStep - 1)

\* C3: progress indicator i is completed iff i < currentStep, active iff
\* i = currentStep, has no class when i > currentStep, and never has both.
C3_ProgressIndicators ==
    \A i \in StepNums :
        /\ ("completed" \in progressClass[i]) <=> (i < currentStep)
        /\ ("active" \in progressClass[i]) <=> (i = currentStep)
        /\ (i > currentStep) => progressClass[i] = {}
        /\ progressClass[i] # {"active", "completed"}

\* A middle step: indicators before it, at it and after it all exist.
C3_Witness ==
    /\ currentStep = 3
    /\ totalSteps = 5
    /\ progressClass[2] = {"completed"}
    /\ progressClass[3] = {"active"}
    /\ progressClass[4] = {}

\* The identifier child_<index>_<field> of a field of a card.
FieldNames ==
    {"age", "private_school", "private_university", "buy_house",
     "house_section", "house_location", "house_bedrooms", "annual_expenses"}

FieldId(card, field) == <<"child", card.index, field>>

\* A step in which renderChildren runs: a change of the selector, or a
\* click that lands on the child step.
RenderStep ==
    \/ \E v \in ChildCounts : SelectChange(v)
    \/ (NextClick \/ PrevClick) /\ currentStep # ChildStep /\ currentStep' = ChildStep

\* C4: renderChildren with selected count N leaves exactly N cards, indexed
\* 0..N-1 in order, whose field identifiers are pairwise distinct across
\* cards (none at all when N = 0).
C4_RenderLeavesNIndexedCards ==
    [][ RenderStep =>
          /\ Len(children') = numChildren'
          /\ \A k \in 1 .. Len(children') : children'[k].index = k - 1
          /\ \A j, k \in 1 .. Len(children') :
                j # k => \A f, g \in FieldNames :
                            FieldId(children'[j], f) # FieldId(children'[k], g) ]_vars

\* Two cards have been rendered.
C4_Witness ==
    /\ numChildren = 2
    /\ Len(children) = 2
    /\ children[1].index = 0
    /\ children[2].index = 1

\* A card in the state the markup gives it.
IsDefaultCard(card) ==
    /\ card.buy_house
    /\ card.house_visible
    /\ card.annual_expenses = <<"3", "0", "0", ",", "0", "0", "0">>
    /\ card.age = 5
    /\ card.house_bedrooms = 4

\* C5: a change of the selector to b leaves exactly the cards 0..b-1, each
\* in its default state, whatever the old cards held.
C5_SelectChangeRebuildsAll ==
    [][ \A b \in ChildCounts :
          SelectChange(b) =>
            /\ Len(children') = b
            /\ \A k \in 1 .. b :
                  children'[k].index = k - 1 /\ IsDefaultCard(children'[k]) ]_vars

\* On a page without the child step only a change of the selector renders
\* cards: it has changed to 1, and the card can be edited.
C5_Witness ==
    /\ totalSteps < ChildStep
    /\ numChildren = 1
    /\ Len(children) = 1
    /\ IsDefaultCard(children[1])
    /\ ENABLED ChangeBuyHouse(0)

\* C6: a change of child i's buy-house checkbox makes child i's house
\* section visible exactly when the checkbox is checked, and leaves the
\* checkbox and section of every other child as they were.
C6_BuyHouseToggleIsLocal ==
    [][ \A i \in PossibleIndexes :
          ChangeBuyHouse(i) =>
            /\ children'[i + 1].buy_house = ~children[i + 1].buy_house
            /\ children'[i + 1].house_visible = children'[i + 1].buy_house
            /\ \A j \in ChildIndexes \ {i} :
                  /\ children'[j + 1].buy_house = children[j + 1].buy_house
                  /\ children'[j + 1].house_visible = children[j + 1].house_visible ]_vars

\* Child 0's checkbox has been switched off, child 1's is untouched.
C6_Witness ==
    /\ Len(children) = 2
    /\ ~children[1].buy_house
    /\ ~children[1].house_visible
    /\ children[2].buy_house
    /\ children[2].house_visible

\* The text the claim C7 names for a blurred field: empty without a digit,
\* else the digits of the text, leading zeros dropped, with a comma
\* between every group of three counted from the right.
DigitsGrouped(text) ==
    LET ds == OnlyDigits(text)
        d  == [i \in 1 .. Len(ds) |-> DigitVal(ds[i])]
    IN  IF Len(ds) = 0 THEN <<>>
        ELSE Grouped(DropLeadingZeros(SubSeq(d, 1, Len(ds))))

\* C7: on blur a currency field's text becomes the empty string when it
\* holds no digit, and otherwise the integer its digits write, in decimal
\* with a comma between every group of three digits.
C7_BlurWritesDigitsGrouped ==
    [][ \A i \in PossibleIndexes :
          BlurExpenses(i) =>
            children'[i + 1].annual_expenses
                = DigitsGrouped(children[i + 1].annual_expenses) ]_vars

\* The digits of a text write an integer of at most 2^53, which parseInt
\* returns exactly.
WritesExactNumber(text) ==
    LET ds == OnlyDigits(text)
        d  == [i \in 1 .. Len(ds) |-> DigitVal(ds[i])]
    IN  Len(ds) = 0
        \/ ~DigitsLess(Two53, DropLeadingZeros(SubSeq(d, 1, Len(ds))))

\* What the code does keep of C7: the blurred text is the grouped integer
\* for every text whose integer is at most 2^53.
BlurWritesDigitsGroupedUpToTwo53 ==
    [][ \A i \in PossibleIndexes :
          (BlurExpenses(i) /\ WritesExactNumber(children[i + 1].annual_expenses))
            => children'[i + 1].annual_expenses
                   = DigitsGrouped(children[i + 1].annual_expenses) ]_vars

\* C8: a value a blur produced is restored exactly by a focus followed by
\* a blur, and formatting it again gives the same value.
C8_BlurValueRoundTrips ==
    [][ \A i \in PossibleIndexes :
          BlurExpenses(i) =>
            LET v == children'[i + 1].annual_expenses
            IN  /\ formatCurrency(StripCommas(v)) = v
                /\ formatCurrency(v) = v ]_vars

\* What the code does keep of C8: every blurred value other than the
\* infinity sign is restored by a focus and a blur, and by a second format.
FiniteBlurValueRoundTrips ==
    [][ \A i \in PossibleIndexes :
          (BlurExpenses(i) /\ children'[i + 1].annual_expenses # <<InfinitySign>>)
            => LET v == children'[i + 1].annual_expenses
               IN  /\ formatCurrency(StripCommas(v)) = v
                   /\ formatCurrency(v) = v ]_vars

\* C9: the Previous control is hidden iff currentStep = 1, and visible at
\* every other step.
C9_PrevHiddenOnlyAtFirstStep ==
    /\ (prevVisibility = "hidden") <=> (currentStep = 1)
    /\ (prevVisibility = "visible") <=> (currentStep # 1)

\* The wizard has left step 1 and Previous is visible.
C9_Witness ==
    /\ currentStep = 2
    /\ prevVisibility = "visible"

\* C10: exactly one of Next and Calculate is shown: Calculate (and not
\* Next) iff currentStep = totalSteps, Next (and not Calculate) below it.
C10_NextOrCalculate ==
    /\ (nextDisplay = "none") # (calcDisplay = "none")
    /\ (calcDisplay = "inline-flex" /\ nextDisplay = "none")
          <=> (currentStep = totalSteps)
    /\ (currentStep < totalSteps)
          => (nextDisplay = "inline-flex" /\ calcDisplay = "none")

\* The last step has been reached by clicks, and Calculate is shown.
C10_Witness ==
    /\ totalSteps = MaxSteps
    /\ currentStep = totalSteps
    /\ calcDisplay = "inline-flex"
    /\ nextDisplay = "none"

(***************************************************************************)
(* C11..C18: the renderer's triggers and frame, the toggler, and the       *)
(* connector lines.                                                        *)
(***************************************************************************)
\* A step in which renderChildren has run.
RenderChildrenRan == renderCalls' # renderCalls

\* C11: after every run of renderChildren, whether on entering the child
\* step or on a change of the selector, the grandchildren section is shown
\* (display "block") iff the selected count is above 0, and hidden
\* (display "none") otherwise, whatever the cards held before.
C11_GrandchildrenShownIffChildren ==
    [][ RenderChildrenRan =>
          /\ grandchildrenDisplay' \in {"block", "none"}
          /\ (grandchildrenDisplay' = "block") <=> (numChildren' > 0) ]_vars

\* renderChildren has run at least twice, the last time for no child, and
\* the section is hidden.
C11_Witness ==
    /\ renderCalls = 2
    /\ numChildren = 0
    /\ grandchildrenDisplay = "none"

\* C12: a pair that lacks its checkbox or its section has no listener and
\* has raised no error; on a pair that has both, every change of the
\* checkbox leaves the section's visible flag equal to the checkbox's
\* checked state.
C12_BindToggle ==
    /\ [](\A id \in ToggleIds :
            (~toggles[id].cb \/ ~toggles[id].section)
                => (~toggles[id].bound /\ ~toggles[id].raised))
    /\ [][ \A id \in ToggleIds :
             (/\ toggles[id].cb
              /\ toggles[id].section
              /\ toggles'[id].checked # toggles[id].checked)
                => (/\ toggles'[id].visible = toggles'[id].checked
                    /\ ~toggles'[id].raised) ]_vars

\* One page with a checkbox that lacks its section and has been clicked
\* with no effect, a section that lacks its checkbox, and a complete pair
\* whose checkbox has been clicked and whose section is visible with it.
C12_Witness ==
    /\ toggles["has_sailboat"].cb
    /\ ~toggles["has_sailboat"].section
    /\ toggles["has_sailboat"].changed
    /\ toggles["has_sailboat"].checked
    /\ ~toggles["has_sailboat"].bound
    /\ ~toggles["has_yacht"].cb
    /\ toggles["has_yacht"].section
    /\ toggles["has_vacation_home"].bound
    /\ toggles["has_vacation_home"].changed
    /\ toggles["has_vacation_home"].checked
    /\ toggles["has_vacation_home"].visible

\* C13 as stated, with the triggering step read as the final step of the
\* wizard: renderChildren runs exactly in the steps that change the
\* selector or enter step totalSteps.
C13_RendersOnFinalStepOrSelect ==
    [][ RenderChildrenRan <=>
          \/ numChildren' # numChildren
          \/ (currentStep' # currentStep /\ currentStep' = totalSteps) ]_vars

\* C13, amended: renderChildren runs exactly in the steps that change the
\* selector or enter step 4, whether by Next from step 3 or by Previous
\* from step 5; step 4 is the last step only of a four-step wizard.
C13_RendersOnStepFourOrSelect ==
    [][ RenderChildrenRan <=>
          \/ numChildren' # numChildren
          \/ (currentStep' # currentStep /\ currentStep' = 4) ]_vars

\* A five-step wizard stands on its last step, renderChildren having run
\* once, on the way through step 4.
C13_Witness ==
    /\ totalSteps = 5
    /\ currentStep = 5
    /\ renderCalls = 1

\* C14: on every card that exists, the house section is visible iff the
\* buy-house checkbox is checked.
C14_HouseSectionFollowsCheckbox ==
    \A k \in 1 .. Len(children) :
        children[k].house_visible <=> children[k].buy_house

\* Two cards, the first with the checkbox cleared and the section hidden,
\* the second with the checkbox set and the section visible.
C14_Witness ==
    /\ Len(children) = 2
    /\ ~children[1].buy_house /\ ~children[1].house_visible
    /\ children[2].buy_house /\ children[2].house_visible

\* C15 as stated: a Next or Previous step with the selector untouched
\* leaves the cards as they are.
C15_NavigationKeepsCards ==
    [][ (currentStep' # currentStep /\ numChildren' = numChildren)
            => children' = children ]_vars

\* C15, amended: the cards are rebuilt with their defaults when the
\* selector changes and also whenever a Next or Previous click lands on
\* step 4; a click that lands on any other step leaves the cards and their
\* edited state unchanged.
C15_OnlyStepFourAndSelectRebuild ==
    [][ /\ (currentStep' # currentStep /\ currentStep' # 4)
            => children' = children
        /\ (currentStep' # currentStep /\ currentStep' = 4)
            => (/\ Len(children') = numChildren
                /\ \A k \in 1 .. Len(children') : IsDefaultCard(children'[k]))
        /\ (numChildren' # numChildren)
            => (/\ Len(children') = numChildren'
                /\ \A k \in 1 .. Len(children') : IsDefaultCard(children'[k])) ]_vars

\* The wizard has left step 4 for step 5 with an edited card: buy-house
\* cleared and the expenses retyped.
C15_Witness ==
    /\ currentStep = 5
    /\ Len(children) = 1
    /\ ~children[1].buy_house
    /\ children[1].annual_expenses = <<"1", ",", "2", "3", "4">>

\* C16: only a click on Next or Previous changes currentStep, the active
\* panel, the progress indicators, the connector lines or the visibility
\* of the buttons; checkbox toggles, changes of the selector, edits of a
\* card and focus and blur of a currency field leave all of them unchanged.
C16_OnlyClicksChangeNavigation ==
    [][ /\ (navVars' # navVars) => (NextClick \/ PrevClick)
        /\ ( \/ \E id \in ToggleIds : ToggleChange(id)
             \/ \E v \in ChildCounts : SelectChange(v)
             \/ \E i \in PossibleIndexes :
                  \/ ChangeBuyHouse(i)
                  \/ FocusExpenses(i)
                  \/ BlurExpenses(i)
                  \/ \E t \in EditTexts : InputExpenses(i, t) )
            => UNCHANGED <<totalSteps, navVars>> ]_vars

\* A three-step wizard stands on step 2, which has no child form, while
\* the selector has been changed, a card edited and a checkbox toggled.
C16_Witness ==
    /\ totalSteps = 3
    /\ currentStep = 2
    /\ renderCalls # 0
    /\ Len(children) = 1
    /\ ~children[1].buy_house
    /\ children[1].annual_expenses = <<"1", ",", "2", "3", "4">>
    /\ toggles["has_vacation_home"].changed
    /\ toggles["has_vacation_home"].checked
    /\ toggles["has_vacation_home"].visible

\* C17: on step 4 the number of cards equals the value of the selector;
\* once renderChildren has run the number of cards always equals that
\* value, and before it has run the container holds no card.
C17_CardCountFollowsSelector ==
    /\ (currentStep = 4) => (Len(children) = numChildren)
    /\ (renderCalls # 0) => (Len(children) = numChildren)
    /\ (renderCalls = 0) => (children = <<>>)

\* A four-step wizard is on step 4, renderChildren has run an odd number
\* of times, and one card exists for the selector's value of 1.
C17_Witness ==
    /\ currentStep = 4
    /\ renderCalls = 1
    /\ numChildren = 1
    /\ Len(children) = 1
    /\ totalSteps = 4

\* C18: the connector line at 0-based position i is lit iff
\* i < currentStep - 1: the lines before the current step are lit and the
\* others are not.
C18_LinesBeforeCurrentStep ==
    \A i \in DOMAIN lineActive : lineActive[i] <=> (i < currentStep - 1)

\* A five-step wizard on step 3: lines 0 and 1 lit, lines 2 and 3 not.
C18_Witness ==
    /\ totalSteps = 5
    /\ currentStep = 3
    /\ lineActive[0] /\ lineActive[1]
    /\ ~lineActive[2] /\ ~lineActive[3]

====
